---- MODULE Spec2Model ----
(***************************************************************************)
(* A model of c3nav's location layer (mapdata/models/locations.py), the    *)
(* route-settings part of the main view (site/views.py) and the map import *)
(* command (mapdata/management/commands/loadmap.py).                       *)
(*                                                                         *)
(* Strings are TLA+ strings; Python floats are IEEE-754 doubles, kept as   *)
(* a 53-bit mantissa in three 20-bit limbs and a binary exponent.          *)
(***************************************************************************)
EXTENDS Integers, Sequences, FiniteSets, TLC

VARIABLES
    levels,       \* the level table (get_levels_cached): the names of the levels
    areas,        \* the AreaLocation table, in the store's iteration order
    groups,       \* the LocationGroup table, in the store's iteration order
    last_update,  \* the data-version stamp (get_last_mapdata_update), or None
    cache,        \* the cache service: key -> entry
    pc,           \* where the loadmap command is
    reader,       \* the records loadmap has read and not yet applied
    txn,          \* the open transaction's view of the AreaLocation table
    point,        \* the PointLocation whose location_id was taken last
    call,         \* the last operation a request performed, with its inputs
    ret           \* what that operation returned

store == <<levels, areas, groups>>
import == <<pc, reader, txn>>
vars == <<levels, areas, groups, last_update, cache, pc, reader, txn, point, call, ret>>

\* Python's None (a record, as every object of the model is).
None == [kind |-> "None"]
NoMatch == <<>>

(***************************************************************************)
(* Strings                                                                 *)
(***************************************************************************)
Char(s, i) == SubSeq(s, i, i)

\* Python's `w in s`.
Contains(s, w) ==
    \E i \in 0..(Len(s) - Len(w)) : SubSeq(s, i + 1, i + Len(w)) = w

StartsWith(s, p) == Len(s) >= Len(p) /\ SubSeq(s, 1, Len(p)) = p

\* Every character of s is one of the characters of class.
AllIn(s, class) == \A i \in 1..Len(s) : Contains(class, Char(s, i))

LowerAlpha == "abcdefghijklmnopqrstuvwxyz"
UpperAlpha == "ABCDEFGHIJKLMNOPQRSTUVWXYZ"
Digits == "0123456789"

IndexOf(class, ch) == CHOOSE i \in 1..Len(class) : Char(class, i) = ch

\* The lower-case letter of each upper-case letter.
LowerOf == [ch \in {Char(UpperAlpha, i) : i \in 1..Len(UpperAlpha)} |->
               Char(LowerAlpha, IndexOf(UpperAlpha, ch))]

LowerChar(ch) == IF ch \in DOMAIN LowerOf THEN LowerOf[ch] ELSE ch

RECURSIVE Lower(_)
Lower(s) == IF s = "" THEN "" ELSE LowerChar(Char(s, 1)) \o Lower(SubSeq(s, 2, Len(s)))

\* Python's s.split(sep) for a one-character sep: a sequence of strings.
RECURSIVE Split(_, _)
Split(s, sep) ==
    IF ~Contains(s, sep) THEN <<s>>
    ELSE LET i == CHOOSE j \in 1..Len(s) :
                     Char(s, j) = sep /\ \A k \in 1..(j - 1) : Char(s, k) # sep
         IN  <<SubSeq(s, 1, i - 1)>> \o Split(SubSeq(s, i + 1, Len(s)), sep)

\* Python's '%d' % n for an integer n >= 0.
RECURSIVE ToDec(_)
ToDec(n) ==
    IF n < 10 THEN Char(Digits, n + 1)
    ELSE ToDec(n \div 10) \o Char(Digits, (n % 10) + 1)

\* Python's int(s) for a non-empty string of digits.
RECURSIVE ParseInt(_)
ParseInt(s) ==
    IF Len(s) = 1 THEN IndexOf(Digits, s) - 1
    ELSE 10 * ParseInt(SubSeq(s, 1, Len(s) - 1)) + (IndexOf(Digits, Char(s, Len(s))) - 1)

(***************************************************************************)
(* IEEE-754 doubles.  A positive double is <<h, m, l, e>>: its mantissa is *)
(* h*2^40 + m*2^20 + l, in [2^52, 2^53), and its value mantissa * 2^e.     *)
(* Zero is <<0, 0, 0, 0>>.                                                 *)
(***************************************************************************)
Limb == 1048576           \* 2^20
TopLimb53 == 8192         \* 2^13: a mantissa below 2^53 has h < 2^13
TopLimb52 == 4096         \* 2^12: a mantissa of at least 2^52 has h >= 2^12

FZero == <<0, 0, 0, 0>>

\* 2*T + b on limb triples.
Twice(T, b) ==
    LET l == 2 * T[3] + b
        m == 2 * T[2] + (l \div Limb)
        h == 2 * T[1] + (m \div Limb)
    IN  <<h, m % Limb, l % Limb>>

\* T + 1 on limb triples.
Succ(T) ==
    LET l == T[3] + 1
        m == T[2] + (l \div Limb)
        h == T[1] + (m \div Limb)
    IN  <<h, m % Limb, l % Limb>>

\* T * c for a small c.
Times(T, c) ==
    LET l == T[3] * c
        m == T[2] * c + (l \div Limb)
        h == T[1] * c + (m \div Limb)
    IN  <<h, m % Limb, l % Limb>>

\* floor(T / 2) and the bit shifted out.
Half(T) ==
    <<T[1] \div 2, ((T[1] % 2) * Limb + T[2]) \div 2, ((T[2] % 2) * Limb + T[3]) \div 2>>

\* Round to nearest, ties to even: T is the truncated mantissa, up says the
\* dropped part is above one half, tie says it is exactly one half.
RoundEven(T, e, up, tie) ==
    LET R == IF up \/ (tie /\ T[3] % 2 = 1) THEN Succ(T) ELSE T
    IN  IF R[1] >= TopLimb53 THEN <<R[1] \div 2, 0, 0, e + 1>>
        ELSE <<R[1], R[2], R[3], e>>

\* 1024*T + b on limb triples, for T below 2^42.
Shift10(T, b) ==
    LET l == 1024 * T[3] + b
        m == 1024 * T[2] + (l \div Limb)
        h == 1024 * T[1] + (m \div Limb)
    IN  <<h, m % Limb, l % Limb>>

\* The correctly rounded quotient n / d of two positive integers: long division
\* until the mantissa has 53 bits, ten bits at a time while ten more fit and
\* one bit at a time after that.
RECURSIVE DivLoop(_, _, _, _)
DivLoop(T, r, d, e) ==
    IF T[1] >= TopLimb52 THEN RoundEven(T, e, 2 * r > d, 2 * r = d)
    ELSE IF T[1] < 4 THEN DivLoop(Shift10(T, (1024 * r) \div d), (1024 * r) % d, d, e - 10)
    ELSE DivLoop(Twice(T, (2 * r) \div d), (2 * r) % d, d, e - 1)

\* Python's n / d (true division of ints).
FloatDiv(n, d) == IF n = 0 THEN FZero ELSE DivLoop(<<0, 0, n \div d>>, n % d, d, 0)

\* Drop the low bits of a product until 53 bits are left, remembering whether
\* the dropped part is above, at or below one half.
RECURSIVE Narrow(_, _, _, _)
Narrow(T, e, lastbit, sticky) ==
    IF T[1] < TopLimb53
    THEN RoundEven(T, e, lastbit = 1 /\ sticky, lastbit = 1 /\ ~sticky)
    ELSE Narrow(Half(T), e + 1, T[3] % 2, sticky \/ lastbit = 1)

\* Python's x * c for a float x and a small positive int c.
FloatTimes(x, c) == IF x = FZero THEN FZero ELSE Narrow(Times(<<x[1], x[2], x[3]>>, c), x[4], 0, FALSE)

\* floor(T / 2^n).
RECURSIVE ShiftRight(_, _)
ShiftRight(T, n) ==
    IF n = 0 THEN T
    ELSE IF n >= 20 THEN ShiftRight(<<0, T[1], T[2]>>, n - 20)
    ELSE ShiftRight(Half(T), n - 1)

\* Python's int(x) for a float 0 <= x < 2^31: truncation.
FloatTrunc(x) ==
    IF x = FZero THEN 0
    ELSE LET T == ShiftRight(<<x[1], x[2], x[3]>>, -x[4])
         IN  T[2] * Limb + T[3]

(***************************************************************************)
(* Bounds                                                                  *)
(***************************************************************************)
MaxCenti == 30            \* coordinates are 0/100 .. MaxCenti/100

LevelNames == {"0", "l-1"}
Packages == {"pub", "priv"}
Requests == {{"pub"}, {"pub", "priv"}}    \* the packages a request may see

(***************************************************************************)
(* The store's queries                                                     *)
(***************************************************************************)
RECURSIVE SelectSeq2(_, _, _)
\* queryset.filter(field=value), in the store's order.
SelectSeq2(rows, field, value) ==
    IF rows = <<>> THEN <<>>
    ELSE (IF Head(rows)[field] = value THEN <<Head(rows)>> ELSE <<>>)
         \o SelectSeq2(Tail(rows), field, value)

\* filter_queryset_by_package_access: the rows of the packages the request may see.
RECURSIVE filter_queryset_by_package_access(_, _)
filter_queryset_by_package_access(request, rows) ==
    IF rows = <<>> THEN <<>>
    ELSE (IF Head(rows).package \in request THEN <<Head(rows)>> ELSE <<>>)
         \o filter_queryset_by_package_access(request, Tail(rows))

\* queryset.first()
First(rows) == IF rows = <<>> THEN None ELSE Head(rows)

(***************************************************************************)
(* PointLocation and get_location                                          *)
(***************************************************************************)
PointLocation(level, x, y) == [kind |-> "point", level |-> level, x |-> x, y |-> y]

\* 'c:%s:%d:%d' % (self.level.name, self.x*100, self.y*100)
location_id(p) ==
    "c:" \o p.level \o ":" \o ToDec(FloatTrunc(FloatTimes(p.x, 100)))
         \o ":" \o ToDec(FloatTrunc(FloatTimes(p.y, 100)))

LevelChars == LowerAlpha \o Digits \o "-_"

\* re.match('^c:(?P<level>[a-z0-9-_]+):(?P<x>[0-9]+):(?P<y>[0-9]+)$', name):
\* the groups <<level, x, y>>, or NoMatch.  `$` also matches before a final newline.
CoordMatch(name) ==
    LET n == IF name # "" /\ Char(name, Len(name)) = "\n"
             THEN SubSeq(name, 1, Len(name) - 1) ELSE name
        parts == Split(n, ":")
    IN  IF /\ Len(parts) = 4
           /\ parts[1] = "c"
           /\ parts[2] # "" /\ AllIn(parts[2], LevelChars)
           /\ parts[3] # "" /\ AllIn(parts[3], Digits)
           /\ parts[4] # "" /\ AllIn(parts[4], Digits)
        THEN <<parts[2], parts[3], parts[4]>>
        ELSE NoMatch

get_location(request, name) ==
    LET match == CoordMatch(name)
    IN  IF match # NoMatch
        THEN IF match[1] \notin levels THEN None
             ELSE PointLocation(match[1], FloatDiv(ParseInt(match[2]), 100),
                                FloatDiv(ParseInt(match[3]), 100))
        ELSE IF StartsWith(name, "g:")
        THEN First(filter_queryset_by_package_access(
                       request, SelectSeq2(groups, "name", SubSeq(name, 3, Len(name)))))
        ELSE First(filter_queryset_by_package_access(
                       request, SelectSeq2(areas, "name", name)))

(***************************************************************************)
(* AreaLocation, LocationGroup and search_location                         *)
(***************************************************************************)
LOCATION_TYPES_ORDER == <<"level", "area", "room", "roomsegment", "poi">>

AreaLocation(name, level, location_type, geometry, titles, package) ==
    [kind |-> "area", name |-> name, level |-> level, location_type |-> location_type,
     geometry |-> geometry, titles |-> titles, package |-> package]

LocationGroup(name, titles, package) ==
    [kind |-> "group", name |-> name, titles |-> titles, package |-> package]

\* LOCATION_TYPES_ORDER.index(arealocation.location_type), counted from 0.
get_sort_key(arealocation) ==
    (CHOOSE i \in 1..Len(LOCATION_TYPES_ORDER) :
         LOCATION_TYPES_ORDER[i] = arealocation.location_type) - 1

\* Q(name__icontains=word)
name_icontains(row, word) == Contains(Lower(row.name), Lower(word))

\* Q(titles__icontains=word): the word occurs in one of the titles.  The column
\* type of titles (c3nav.mapdata.fields.JSONField) decides what text the lookup
\* runs over; it is taken here to be the title texts.
titles_icontains(row, word) ==
    \E lang \in DOMAIN row.titles : Contains(Lower(row.titles[lang]), Lower(word))

RECURSIVE FilterWord(_, _)
\* queryset.filter(Q(name__icontains=word) | Q(titles__icontains=word))
FilterWord(rows, word) ==
    IF rows = <<>> THEN <<>>
    ELSE (IF name_icontains(Head(rows), word) \/ titles_icontains(Head(rows), word)
          THEN <<Head(rows)>> ELSE <<>>)
         \o FilterWord(Tail(rows), word)

RECURSIVE FilterAnyWord(_, _)
FilterAnyWord(rows, words) ==
    IF rows = <<>> THEN <<>>
    ELSE (IF \E k \in 1..Len(words) :
                name_icontains(Head(rows), words[k]) \/ titles_icontains(Head(rows), words[k])
          THEN <<Head(rows)>> ELSE <<>>)
         \o FilterAnyWord(Tail(rows), words)

\* filter_words with the words' filters joined by `or`.
filter_words_any(queryset, words) == FilterAnyWord(queryset, words)

RECURSIVE filter_words(_, _)
filter_words(queryset, words) ==
    IF words = <<>> THEN queryset
    ELSE filter_words(FilterWord(queryset, Head(words)), Tail(words))

MaxWords == 10
MaxGroupResults == 10

\* seq[:n]
Take(seq, n) == SubSeq(seq, 1, IF Len(seq) < n THEN Len(seq) ELSE n)

RECURSIVE WithSortKey(_, _)
WithSortKey(rows, k) ==
    IF rows = <<>> THEN <<>>
    ELSE (IF get_sort_key(Head(rows)) = k THEN <<Head(rows)>> ELSE <<>>)
         \o WithSortKey(Tail(rows), k)

RECURSIVE SortedFrom(_, _)
SortedFrom(rows, k) ==
    IF k < 0 THEN <<>> ELSE WithSortKey(rows, k) \o SortedFrom(rows, k - 1)

\* sorted(rows, key=AreaLocation.get_sort_key, reverse=True): stable, so rows of
\* one location_type keep their order.
SortedBySortKeyReversed(rows) == SortedFrom(rows, Len(LOCATION_TYPES_ORDER) - 1)

\* queryset.exclude(name=location.name) as a statement: the queryset it builds
\* is dropped, and `queryset` is what it was.
ExcludeStatement(queryset, location) == queryset

search_location(request, search) ==
    LET location == get_location(request, search)
        direct == IF location # None THEN <<location>> ELSE <<>>
        words == Take(Split(search, " "), MaxWords)
        areaqs == IF location.kind = "area" THEN ExcludeStatement(areas, location) ELSE areas
        groupqs == IF location.kind = "group" THEN ExcludeStatement(groups, location) ELSE groups
    IN  direct
        \o SortedBySortKeyReversed(
               filter_words(filter_queryset_by_package_access(request, areaqs), words))
        \o Take(filter_words(filter_queryset_by_package_access(request, groupqs), words),
                MaxGroupResults)

\* The main view hands the search field's text to search_location.
SearchLocation ==
    /\ call.op = "search_location" /\ ~call.done
    /\ call' = [call EXCEPT !.done = TRUE]
    /\ ret' = search_location(call.request, call.search)
    /\ UNCHANGED <<store, last_update, cache, import, point>>

(***************************************************************************)
(* Geometry: a polygon is a set of cells of a fixed partition of the plane *)
(* (one of them a degenerate cell of area 0).                              *)
(***************************************************************************)
Cells == {"c0", "c1", "c99", "c9900"}

CellArea(c) == CASE c = "c0" -> 0 [] c = "c1" -> 1 [] c = "c99" -> 99 [] c = "c9900" -> 9900

RECURSIVE GeometryArea(_)
\* geometry.area
GeometryArea(g) ==
    IF g = {} THEN 0
    ELSE LET c == CHOOSE d \in g : TRUE IN CellArea(c) + GeometryArea(g \ {c})

\* geometry.intersection(other)
Intersection(g, other) == g \cap other

\* x > y on doubles that are not negative.
FloatGreater(x, y) ==
    IF x = FZero THEN FALSE
    ELSE IF y = FZero THEN TRUE
    ELSE \/ x[4] > y[4]
         \/ (x[4] = y[4] /\ x[1] > y[1])
         \/ (x[4] = y[4] /\ x[1] = y[1] /\ x[2] > y[2])
         \/ (x[4] = y[4] /\ x[1] = y[1] /\ x[2] = y[2] /\ x[3] > y[3])

(***************************************************************************)
(* The enclosing areas of an AreaLocation                                  *)
(***************************************************************************)
Returned(list) == [raised |-> "", list |-> list]
Raised(exception) == [raised |-> exception, list |-> <<>>]

\* An exception of either part is the exception of the whole.
Extend(r1, r2) ==
    IF r1.raised # "" THEN r1
    ELSE IF r2.raised # "" THEN r2
    ELSE Returned(r1.list \o r2.list)

\* AreaLocation.objects.filter(location_type=location_type, level=self.level)
AreasOfTypeOnLevel(location_type, level) ==
    SelectSeq2(SelectSeq2(areas, "location_type", location_type), "level", level)

AreaValues == {GeometryArea(g) : g \in SUBSET Cells}

\* intersection_area / my_area, for the areas the cells can add up to
Quotient == [n \in AreaValues, d \in AreaValues \ {0} |-> FloatDiv(n, d)]

\* the float literal 0.99
Threshold == FloatDiv(99, 100)

\* x >= y on doubles that are not negative.
FloatGreaterEq(x, y) == x = y \/ FloatGreater(x, y)

\* InAreaTest with `>=` for `>`.
InAreaTestInclusive(self, arealocation) ==
    LET my_area == GeometryArea(self.geometry)
        intersection_area == GeometryArea(Intersection(arealocation.geometry, self.geometry))
    IN  IF intersection_area = 0 THEN Returned(<<>>)
        ELSE IF my_area = 0 THEN Raised("ZeroDivisionError")
        ELSE IF FloatGreaterEq(Quotient[intersection_area, my_area], Threshold)
        THEN Returned(<<arealocation>>)
        ELSE Returned(<<>>)

\* InAreaTest without the `intersection_area and` guard.
InAreaTestUnguarded(self, arealocation) ==
    LET my_area == GeometryArea(self.geometry)
        intersection_area == GeometryArea(Intersection(arealocation.geometry, self.geometry))
    IN  IF my_area = 0 THEN Raised("ZeroDivisionError")
        ELSE IF FloatGreater(Quotient[intersection_area, my_area], Threshold)
        THEN Returned(<<arealocation>>)
        ELSE Returned(<<>>)

\* if intersection_area and intersection_area / my_area > 0.99: append
InAreaTest(self, arealocation) ==
    LET my_area == GeometryArea(self.geometry)
        intersection_area == GeometryArea(Intersection(arealocation.geometry, self.geometry))
    IN  IF intersection_area = 0 THEN Returned(<<>>)
        ELSE IF my_area = 0 THEN Raised("ZeroDivisionError")
        ELSE IF FloatGreater(Quotient[intersection_area, my_area], Threshold)
        THEN Returned(<<arealocation>>)
        ELSE Returned(<<>>)

RECURSIVE InAreasAmong(_, _)
\* the inner loop of _get_in_areas
InAreasAmong(self, rows) ==
    IF rows = <<>> THEN Returned(<<>>)
    ELSE Extend(InAreaTest(self, Head(rows)), InAreasAmong(self, Tail(rows)))

\* TypesBelowReversed with the slice one too long.
TypesUpToReversed(area_location_i) ==
    [j \in 1..(area_location_i + 1) |-> LOCATION_TYPES_ORDER[area_location_i + 2 - j]]

\* TypesBelowReversed without reversed().
TypesBelowForward(area_location_i) ==
    [j \in 1..area_location_i |-> LOCATION_TYPES_ORDER[j]]

\* reversed(self.LOCATION_TYPES_ORDER[:area_location_i])
TypesBelowReversed(area_location_i) ==
    [j \in 1..area_location_i |-> LOCATION_TYPES_ORDER[area_location_i + 1 - j]]

RECURSIVE InAreasOver(_, _)
\* the outer loop of _get_in_areas
InAreasOver(self, types) ==
    IF types = <<>> THEN Returned(<<>>)
    ELSE Extend(InAreasAmong(self, AreasOfTypeOnLevel(Head(types), self.level)),
                InAreasOver(self, Tail(types)))

\* AreaLocation._get_in_areas
uncached_get_in_areas(self) == InAreasOver(self, TypesBelowReversed(get_sort_key(self)))

\* last_update.isoformat()
isoformat(stamp) == "2016-12-01T00:00:0" \o ToDec(stamp.second)

\* cache_key without the stamp.
cache_key_unstamped(stamp, name) == "c3nav__mapdata__location__in__areas__" \o "__" \o name

\* 'c3nav__mapdata__location__in__areas__'+last_update.isoformat()+'__'+self.name
cache_key(stamp, name) ==
    "c3nav__mapdata__location__in__areas__" \o isoformat(stamp) \o "__" \o name

\* cache.get(key) is None
CacheMiss(key) == key \notin DOMAIN cache

\* cache.set(key, value, 900); `under` records the stamp in force at the time
CacheSet(key, value, under) ==
    [k \in DOMAIN cache \cup {key} |->
        IF k = key THEN [value |-> value, under |-> under] ELSE cache[k]]

\* AreaLocation.get_in_areas, by a request that loaded the row `self`
GetInAreas(self) ==
    LET computed == uncached_get_in_areas(self) IN
    IF last_update = None
    THEN /\ call' = [op |-> "get_in_areas", self |-> self, last_update |-> None,
                     hit |-> FALSE, under |-> None]
         /\ ret' = computed
         /\ UNCHANGED cache
    ELSE LET key == cache_key(last_update, self.name)
             \* `not in_areas`: nothing cached, or an empty list cached
             not_in_areas == CacheMiss(key) \/ cache[key].value = <<>>
         IN  IF ~not_in_areas
             THEN /\ call' = [op |-> "get_in_areas", self |-> self,
                              last_update |-> last_update, hit |-> TRUE,
                              under |-> cache[key].under]
                  /\ ret' = Returned(cache[key].value)
                  /\ UNCHANGED cache
             ELSE /\ call' = [op |-> "get_in_areas", self |-> self,
                              last_update |-> last_update, hit |-> FALSE, under |-> None]
                  /\ ret' = computed
                  /\ cache' = IF computed.raised = ""
                              THEN CacheSet(key, computed.list, last_update)
                              ELSE cache

\* A request loads an AreaLocation and asks for its enclosing areas (its subtitle).
RequestInAreas(i) ==
    /\ i \in 1..Len(areas)
    /\ GetInAreas(areas[i])
    /\ UNCHANGED <<store, last_update, import, point>>

\* AreaLocation._get_in_areas called on its own
RequestUncachedInAreas(i) ==
    /\ i \in 1..Len(areas)
    /\ call' = [op |-> "_get_in_areas", self |-> areas[i]]
    /\ ret' = uncached_get_in_areas(areas[i])
    /\ UNCHANGED <<store, last_update, cache, import, point>>

\* The cache drops an entry (its 900 seconds are over, or it is evicted).
CacheExpire(key) ==
    /\ key \in DOMAIN cache
    /\ cache' = [k \in DOMAIN cache \ {key} |-> cache[k]]
    /\ UNCHANGED <<store, last_update, import, point, call, ret>>

(***************************************************************************)
(* Requests on coordinates                                                 *)
(***************************************************************************)
Idle == [op |-> "none"]

\* The location_id of the PointLocation a view holds is taken.
TakeLocationId ==
    /\ point # None
    /\ call.op = "none"
    /\ call' = [op |-> "location_id"]
    /\ ret' = location_id(point)
    /\ UNCHANGED <<store, last_update, cache, import, point>>

\* get_location on the identifier just produced.
ResolveLocationId(request) ==
    /\ call.op = "location_id"
    /\ call' = [op |-> "get_location", name |-> ret, request |-> request]
    /\ ret' = get_location(request, ret)
    /\ UNCHANGED <<store, last_update, cache, import, point>>

(***************************************************************************)
(* Enclosing areas over small stores                                       *)
(***************************************************************************)
MaxAreas == 3             \* rows of a table that varies levels and location types
MaxShapes == 3            \* rows of a table that varies geometries

AreaName(i) == "a" \o ToDec(i)

Geometries == {{"c0"}, {"c9900"}, {"c1", "c9900"}, {"c1", "c99"}, Cells}

\* Tables of up to n rows with distinct names and attributes <<level, type, geometry>>.
TablesOver(attributes, n) ==
    UNION {{[i \in 1..k |-> AreaLocation(AreaName(i), f[i][1], f[i][2], f[i][3],
                                         [en |-> "Area"], "pub")] :
               f \in [1..k -> attributes]} : k \in 0..n}

Range(seq) == {seq[i] : i \in 1..Len(seq)}

AreaTables ==
    TablesOver(LevelNames \X Range(LOCATION_TYPES_ORDER) \X {Cells}, MaxAreas)
    \cup TablesOver({"0"} \X {"area", "room"} \X Geometries, MaxShapes)

Stamp(n) == [second |-> n]
EmptyCache == [k \in {} |-> None]

InitAreas ==
    /\ levels = LevelNames
    /\ areas \in AreaTables
    /\ groups = <<>>
    /\ last_update = None
    /\ cache = EmptyCache
    /\ pc = "idle" /\ reader = <<>> /\ txn = <<>>
    /\ point = None /\ call = Idle /\ ret = None

NextAreas ==
    \/ \E i \in 1..Len(areas) : RequestInAreas(i)
    \/ \E i \in 1..Len(areas) : RequestUncachedInAreas(i)

SpecAreas == InitAreas /\ [][NextAreas]_vars

(***************************************************************************)
(* Coordinate identifiers                                                  *)
(***************************************************************************)
\* k/100 as the float get_location builds
Centi == [k \in 0..MaxCenti |-> FloatDiv(k, 100)]

StoredAreas ==
    <<AreaLocation("r1", "0", "room", {"c1"}, [en |-> "Room One"], "pub"),
      AreaLocation("hall", "0", "area", Cells, [en |-> "Main Hall", de |-> "Halle"], "pub"),
      AreaLocation("one", "0", "poi", {"c1"}, [en |-> "Info"], "priv")>>

StoredGroups ==
    <<LocationGroup("staff", [en |-> "Staff Rooms"], "pub"),
      LocationGroup("one", [en |-> "Group g:one"], "priv")>>

InitCoord ==
    /\ levels \in (SUBSET LevelNames) \ {{}}
    /\ areas = StoredAreas
    /\ groups = StoredGroups
    /\ last_update = None
    /\ cache = EmptyCache
    /\ pc = "idle" /\ reader = <<>> /\ txn = <<>>
    /\ point \in {PointLocation(level, Centi[kx], Centi[ky]) :
                     level \in levels, kx \in 0..MaxCenti, ky \in 0..MaxCenti}
    /\ call = Idle /\ ret = None

NextCoord ==
    \/ TakeLocationId
    \/ \E request \in Requests : ResolveLocationId(request)

SpecCoord == InitCoord /\ [][NextCoord]_vars

\* C1 as stated: get_location applied to the location_id of a PointLocation
\* of a level of the table, with x and y multiples of 1/100, returns a
\* PointLocation with the same level, x and y.
C1_RoundTrip ==
    call.op = "get_location" => ret = point

(***************************************************************************)
(* Search                                                                  *)
(***************************************************************************)
MaxTokens == 2            \* tokens of a query

Tokens == {"one", "ROOM", "hall", "r1", "g:one", "c:0:1:2"}

RECURSIVE Join(_)
\* ' '.join(words)
Join(words) ==
    IF Len(words) = 1 THEN words[1] ELSE words[1] \o " " \o Join(Tail(words))

\* Queries of more than MaxWords tokens.
LongQueries ==
    {Join([i \in 1..(MaxWords + 1) |-> IF i <= MaxWords THEN t ELSE u]) :
        t \in {"o", "x"}, u \in {"o", "x"}}

Queries ==
    UNION {{Join(w) : w \in [1..n -> Tokens]} : n \in 1..MaxTokens} \cup LongQueries

\* The rows of `rows` at the places `order` names, in that order.
Pick(rows, order) == [i \in 1..Len(order) |-> rows[order[i]]]

\* Every table of some of `rows`, in any order.
TablesOf(rows) ==
    {Pick(rows, order) :
        order \in {o \in UNION {[1..k -> 1..Len(rows)] : k \in 0..Len(rows)} :
                      \A i, j \in DOMAIN o : i # j => o[i] # o[j]}}

InitSearch ==
    /\ levels = {"0"}
    /\ areas \in TablesOf(StoredAreas)
    /\ groups \in TablesOf(StoredGroups)
    /\ last_update = None
    /\ cache = EmptyCache
    /\ pc = "idle" /\ reader = <<>> /\ txn = <<>>
    /\ point = None
    /\ call \in {[op |-> "search_location", search |-> q, request |-> r, done |-> FALSE] :
                    q \in Queries, r \in Requests}
    /\ ret = None

NextSearch == SearchLocation

SpecSearch == InitSearch /\ [][NextSearch]_vars

Searched == call.op = "search_location" /\ call.done

\* What the whole query text resolves to.
DirectMatch == get_location(call.request, call.search)

\* C2 as stated: a direct match that is an AreaLocation or a LocationGroup is
\* the first result and occurs nowhere else in the results.
C2_DirectMatchOnce ==
    Searched /\ DirectMatch.kind \in {"area", "group"} =>
        /\ ret[1] = DirectMatch
        /\ \A i \in 2..Len(ret) : ret[i] # DirectMatch

\* The results after the direct match.
FuzzyPart == IF DirectMatch # None THEN Tail(ret) ELSE ret

\* word occurs in text, whatever the case of the letters.
Occurs(word, text) ==
    \E i \in 1..(Len(text) - Len(word) + 1) :
        Lower(SubSeq(text, i, i + Len(word) - 1)) = Lower(word)

OccursIn(word, row) ==
    Occurs(word, row.name) \/ \E lang \in DOMAIN row.titles : Occurs(word, row.titles[lang])

QueryTokens == Split(call.search, " ")

\* C3: every fuzzy result holds every one of the first MaxWords tokens of the
\* query in its name or in one of its titles, whatever the case.
C3_Conjunctive ==
    Searched =>
        \A i \in 1..Len(FuzzyPart) :
            \A k \in 1..Len(QueryTokens) :
                k <= MaxWords => OccursIn(QueryTokens[k], FuzzyPart[i])

\* A query of two tokens with a fuzzy result, while a row the request may see
\* holds the first token and not the second, and is left out.
C3_Witness ==
    /\ Searched
    /\ Len(QueryTokens) = 2
    /\ FuzzyPart # <<>>
    /\ \E row \in Range(areas) \cup Range(groups) :
           /\ row.package \in call.request
           /\ OccursIn(QueryTokens[1], row)
           /\ ~OccursIn(QueryTokens[2], row)
           /\ row \notin Range(FuzzyPart)

InAreasCalled == call.op \in {"_get_in_areas", "get_in_areas"}

\* The location_type's place in the coarse-to-fine order, from the type's name.
Ordinal(location_type) ==
    CASE location_type = "level" -> 0
      [] location_type = "area" -> 1
      [] location_type = "room" -> 2
      [] location_type = "roomsegment" -> 3
      [] location_type = "poi" -> 4

Candidates(self) ==
    {c \in Range(areas) : c.level = self.level
                          /\ Ordinal(c.location_type) < Ordinal(self.location_type)}

\* 100 * (area of the overlap) and 99 * (area of self), in exact arithmetic.
Overlap100(self, c) == 100 * GeometryArea(c.geometry \cap self.geometry)
Self99(self) == 99 * GeometryArea(self.geometry)

\* C5: a candidate that covers exactly 99% of the area is not in the result; one
\* that covers more than 99% is.
C5_StrictThreshold ==
    InAreasCalled /\ GeometryArea(call.self.geometry) > 0 =>
        /\ ret.raised = ""
        /\ \A c \in Candidates(call.self) :
               /\ Overlap100(call.self, c) = Self99(call.self) => c \notin Range(ret.list)
               /\ Overlap100(call.self, c) > Self99(call.self) => c \in Range(ret.list)

\* One candidate at exactly 0.99 and left out, one at 0.9901 and included.
C5_Witness ==
    /\ InAreasCalled
    /\ GeometryArea(call.self.geometry) = 10000
    /\ \E c \in Candidates(call.self) :
           GeometryArea(c.geometry \cap call.self.geometry) = 9900 /\ c \notin Range(ret.list)
    /\ \E c \in Candidates(call.self) :
           GeometryArea(c.geometry \cap call.self.geometry) = 9901 /\ c \in Range(ret.list)

\* C6: for an area whose geometry has area 0 the result is the empty sequence,
\* and no ZeroDivisionError is raised.
C6_ZeroAreaEmpty ==
    InAreasCalled /\ GeometryArea(call.self.geometry) = 0 =>
        ret.raised = "" /\ ret.list = <<>>

\* A zero-area area asked about while a coarser area on its level overlaps it.
C6_Witness ==
    /\ InAreasCalled
    /\ GeometryArea(call.self.geometry) = 0
    /\ \E c \in Candidates(call.self) : c.geometry \cap call.self.geometry # {}
    /\ ret.raised = ""

\* C9 as stated: the result runs from the coarsest to the finest location_type.
C9_CoarsestFirst ==
    InAreasCalled =>
        \A i, j \in 1..Len(ret.list) :
            i < j => Ordinal(ret.list[i].location_type) <= Ordinal(ret.list[j].location_type)

\* C9 amended: the result runs from the finest enclosing location_type to the
\* coarsest: an area never precedes one of a finer type.
C9_FinestFirst ==
    InAreasCalled =>
        \A i, j \in 1..Len(ret.list) :
            i < j => Ordinal(ret.list[i].location_type) >= Ordinal(ret.list[j].location_type)

\* A result with areas of two different types.
C9_Witness ==
    /\ InAreasCalled
    /\ \E i, j \in 1..Len(ret.list) :
           i < j /\ Ordinal(ret.list[i].location_type) > Ordinal(ret.list[j].location_type)

(***************************************************************************)
(* The main view: route settings                                           *)
(***************************************************************************)
ctype_mapping ==
    [yes |-> <<"up", "down">>, up |-> <<"up">>, down |-> <<"down">>, no |-> <<>>]

\* get_ctypes that takes every value for 'yes'.
get_ctypes_always(prefix, value) == <<prefix \o "_up", prefix \o "_down">>

\* tuple((prefix+'_'+direction) for direction in ctype_mapping.get(value, ('up', 'down')))
get_ctypes(prefix, value) ==
    LET directions == IF value \in DOMAIN ctype_mapping THEN ctype_mapping[value]
                      ELSE <<"up", "down">>
    IN  [i \in 1..Len(directions) |-> prefix \o "_" \o directions[i]]

reverse_ctypes(ctypes, name) ==
    IF (name \o "_up") \in Range(ctypes)
    THEN (IF (name \o "_down") \in Range(ctypes) THEN "yes" ELSE "up")
    ELSE (IF (name \o "_down") \in Range(ctypes) THEN "down" ELSE "no")

\* Python's set(s) for a string s: the set of its characters.
CharSet(s) == {Char(s, i) : i \in 1..Len(s)}

\* allow_nonpublic, include, avoid = parse_include_avoid(request, include, avoid):
\* what the call returns is given with the request, include and avoid being
\* sets of tokens.
parse_include_avoid(request) == request.parsed

\* dict.get(key, default)
Get(dict, key, default) == IF key \in DOMAIN dict THEN dict[key] ELSE default

NoLocation == [kind |-> "absent"]

\* get_location_or_404: the location, NoLocation for no identifier, or Http404.
get_location_or_404(request, location) ==
    IF location = "" THEN NoLocation
    ELSE LET found == get_location(request.packages, location)
         IN  IF found = None THEN [kind |-> "Http404"] ELSE found

\* The view, from its request to its response.  The search and the map click
\* are taken only with a location missing (active_field set), and a click ends
\* the view with a redirect; neither reaches the routing.
main(request, location, origin, destination) ==
    LET loc == get_location_or_404(request, location)
        org == get_location_or_404(request, origin)
        dst == get_location_or_404(request, destination)
        has_origin == org # NoLocation
        has_destination == dst # NoLocation
        active_field == IF ~has_origin /\ ~has_destination THEN "location"
                        ELSE IF has_origin /\ ~has_destination THEN "destination"
                        ELSE IF has_destination /\ ~has_origin THEN "origin"
                        ELSE ""
        cookie == request.cookie
        from_cookie(key) == IF cookie.kind = "dict" THEN Get(cookie.value, key, "yes")
                            ELSE "yes"
        POST == request.POST
        setting(key) == IF request.method = "POST" THEN Get(POST, key, from_cookie(key))
                        ELSE from_cookie(key)
        allowed_ctypes == <<"">> \o get_ctypes("stairs", Get(POST, "stairs", setting("stairs")))
                                 \o get_ctypes("escalator", Get(POST, "escalators", setting("escalators")))
                                 \o get_ctypes("elevator", Get(POST, "elevators", setting("elevators")))
        parsed == parse_include_avoid(request)
        settings == [stairs |-> reverse_ctypes(allowed_ctypes, "stairs"),
                     escalators |-> reverse_ctypes(allowed_ctypes, "escalator"),
                     elevators |-> reverse_ctypes(allowed_ctypes, "elevator")]
    IN  IF "Http404" \in {loc.kind, org.kind, dst.kind}
        THEN [status |-> "Http404", get_route |-> None, settings |-> None]
        ELSE IF request.click /\ active_field # ""
        THEN [status |-> "redirect", get_route |-> None, settings |-> None]
        ELSE [status |-> "rendered",
              get_route |-> IF request.method = "POST" /\ has_origin /\ has_destination
                            THEN [origin |-> org, destination |-> dst,
                                  allowed_ctypes |-> allowed_ctypes,
                                  allow_nonpublic |-> parsed.allow_nonpublic,
                                  avoid |-> parsed.avoid \ CharSet(":public"),
                                  include |-> parsed.include \ CharSet(":nonpublic")]
                            ELSE None,
              settings |-> settings]

Main ==
    /\ call.op = "main" /\ ~call.done
    /\ call' = [call EXCEPT !.done = TRUE]
    /\ ret' = main(call.request, call.location, call.origin, call.destination)
    /\ UNCHANGED <<store, last_update, cache, import, point>>

ToggleValues == {"yes", "up", "down", "no", "sideways"}
ToggleKeys == {"stairs", "escalators", "elevators"}

\* Every dict with some of the keys and values.
Dicts(keys, values) == UNION {[d -> values] : d \in SUBSET keys}

Cookies ==
    {[kind |-> "absent"], [kind |-> "str"],
     [kind |-> "dict", value |-> [k \in {} |-> ""]],
     [kind |-> "dict", value |-> [stairs |-> "down", escalators |-> "no", elevators |-> "up"]]}

\* A request that neither includes nor avoids anything.
NothingParsed == [allow_nonpublic |-> FALSE, include |-> {}, avoid |-> {}]

ViewRequests ==
    {[method |-> "GET", POST |-> [k \in {} |-> ""], cookie |-> c, click |-> FALSE,
      packages |-> {"pub"}, parsed |-> NothingParsed] : c \in Cookies}
    \cup {[method |-> "POST", POST |-> p, cookie |-> c, click |-> k, packages |-> {"pub"},
           parsed |-> NothingParsed] :
              p \in Dicts(ToggleKeys, ToggleValues), c \in Cookies, k \in BOOLEAN}

InitView ==
    /\ levels = {"0"}
    /\ areas = StoredAreas
    /\ groups = StoredGroups
    /\ last_update = None
    /\ cache = EmptyCache
    /\ pc = "idle" /\ reader = <<>> /\ txn = <<>>
    /\ point = None
    /\ call \in {[op |-> "main", request |-> r, location |-> "", origin |-> o,
                   destination |-> d, done |-> FALSE] :
                    r \in ViewRequests, o \in {"", "r1", "nowhere"}, d \in {"", "c:0:150:250"}}
    /\ ret = None

NextView == Main

SpecView == InitView /\ [][NextView]_vars

\* The value of a toggle as the request gives it: the form's, else the
\* settings cookie's, else 'yes'.
Toggle(key) ==
    LET r == call.request
    IN  IF key \in DOMAIN r.POST THEN r.POST[key]
        ELSE IF r.cookie.kind = "dict" /\ key \in DOMAIN r.cookie.value
        THEN r.cookie.value[key]
        ELSE "yes"

UpTag(key) ==
    CASE key = "stairs" -> "stairs_up" [] key = "escalators" -> "escalator_up"
      [] key = "elevators" -> "elevator_up"
DownTag(key) ==
    CASE key = "stairs" -> "stairs_down" [] key = "escalators" -> "escalator_down"
      [] key = "elevators" -> "elevator_down"

RouteAsked == call.op = "main" /\ call.done /\ ret.get_route # None

\* C7: the connection types handed to get_route hold the empty tag, and for each
\* feature whose toggle is yes, up, down or no its up tag iff the toggle is yes
\* or up and its down tag iff the toggle is yes or down.
C7_AllowedCtypes ==
    RouteAsked =>
        LET allowed == Range(ret.get_route.allowed_ctypes)
        IN  /\ "" \in allowed
            /\ \A key \in ToggleKeys :
                   Toggle(key) \in {"yes", "up", "down", "no"} =>
                       /\ UpTag(key) \in allowed <=> Toggle(key) \in {"yes", "up"}
                       /\ DownTag(key) \in allowed <=> Toggle(key) \in {"yes", "down"}

\* A route asked for with stairs=no from the form, escalators from the cookie
\* and elevators up.
C7_Witness ==
    /\ RouteAsked
    /\ "stairs" \in DOMAIN call.request.POST /\ Toggle("stairs") = "no"
    /\ "escalators" \notin DOMAIN call.request.POST /\ Toggle("escalators") = "no"
    /\ Toggle("elevators") = "up"
    /\ "stairs_up" \notin Range(ret.get_route.allowed_ctypes)
    /\ "stairs_down" \notin Range(ret.get_route.allowed_ctypes)

(***************************************************************************)
(* The main view: include and avoid                                        *)
(***************************************************************************)
\* Tokens of include and avoid sets: the two markers, names of one character
\* and longer names.
RouteTokens == {":public", ":nonpublic", "p", "n", "x", "r1", "staff"}

RouteRequests ==
    {[method |-> m, POST |-> [k \in {} |-> ""], cookie |-> [kind |-> "absent"],
      click |-> FALSE, packages |-> {"pub"},
      parsed |-> [allow_nonpublic |-> allow, include |-> include, avoid |-> avoid]] :
        m \in {"GET", "POST"}, allow \in BOOLEAN,
        include \in SUBSET RouteTokens, avoid \in SUBSET RouteTokens}

InitRoute ==
    /\ levels = {"0"}
    /\ areas = StoredAreas
    /\ groups = StoredGroups
    /\ last_update = None
    /\ cache = EmptyCache
    /\ pc = "idle" /\ reader = <<>> /\ txn = <<>>
    /\ point = None
    /\ call \in {[op |-> "main", request |-> r, location |-> "", origin |-> "r1",
                   destination |-> "c:0:150:250", done |-> FALSE] : r \in RouteRequests}
    /\ ret = None

NextRoute == Main

SpecRoute == InitRoute /\ [][NextRoute]_vars

\* C11 as stated: the avoid set handed to get_route is the parsed avoid set
\* without the marker ':public', the include set the parsed include set without
\* the marker ':nonpublic'; every other token is passed on.
C11_OnlyMarkersRemoved ==
    RouteAsked =>
        /\ ret.get_route.avoid = call.request.parsed.avoid \ {":public"}
        /\ ret.get_route.include = call.request.parsed.include \ {":nonpublic"}

(***************************************************************************)
(* Map package records and fromfile                                        *)
(***************************************************************************)
\* Values of a record's JSON: tagged with their Python type.
Str(v) == [t |-> "str", v |-> v]
Bool(v) == [t |-> "bool", v |-> v]
Dict(v) == [t |-> "dict", v |-> v]
List(v) == [t |-> "list", v |-> v]

LOCATION_ROUTING_INCLUSION == {"default", "allow_avoid", "allow_include", "needs_permission"}

\* LocationModelMixin.fromfile: the exception it raises, or "".  The languages
\* of a titles dict are field names here, hence strings.
MixinFromfileError(data) ==
    IF "titles" \notin DOMAIN data THEN "ValueError: missing titles."
    ELSE IF data.titles.t # "dict" THEN "ValueError: Invalid titles format."
    ELSE IF \E lang \in DOMAIN data.titles.v : data.titles.v[lang].t # "str"
    THEN "ValueError: titles: All titles have to be strings."
    ELSE IF \E lang \in DOMAIN data.titles.v : data.titles.v[lang].v = ""
    THEN "ValueError: titles: Titles must not be empty strings."
    ELSE IF "can_search" \notin DOMAIN data THEN "ValueError: Missing can_search"
    ELSE IF data.can_search.t # "bool" THEN "ValueError: can_search has to be boolean!"
    ELSE IF "routing_inclusion" \notin DOMAIN data THEN "ValueError: Missing routing inclusion"
    ELSE IF ~(data.routing_inclusion.t = "str"
              /\ data.routing_inclusion.v \in LOCATION_ROUTING_INCLUSION)
    THEN "ValueError: Invalid routing inclusion"
    ELSE ""

\* AreaLocation.fromfile: the exception it raises, or "".
AreaFromfileError(data) ==
    IF MixinFromfileError(data) # "" THEN MixinFromfileError(data)
    ELSE IF "groups" \in DOMAIN data /\ data.groups.t # "list"
    THEN "TypeError: groups has to be a list"
    ELSE IF "location_type" \notin DOMAIN data THEN "ValueError: Missing location type"
    ELSE IF ~(data.location_type.t = "str"
              /\ data.location_type.v \in Range(LOCATION_TYPES_ORDER))
    THEN "ValueError: Invalid location type"
    ELSE IF "can_describe" \notin DOMAIN data THEN "ValueError: Missing can_describe"
    ELSE IF data.can_describe.t # "bool" THEN "ValueError: can_describe has to be boolean!"
    ELSE ""

\* The row the kwargs of a valid record make.
RowOf(data) ==
    AreaLocation(data.name, data.level, data.location_type.v, data.geometry,
                 [lang \in DOMAIN data.titles.v |-> data.titles.v[lang].v], data.package)

\* update_or_create by name: a row of that name is replaced where it is, a new
\* row is added at the end.
Upsert(rows, row) ==
    IF \E i \in 1..Len(rows) : rows[i].name = row.name
    THEN [i \in 1..Len(rows) |-> IF rows[i].name = row.name THEN row ELSE rows[i]]
    ELSE Append(rows, row)

(***************************************************************************)
(* loadmap                                                                 *)
(***************************************************************************)
MaxRecords == 2           \* records of a map package
MaxStamp == 2             \* successful imports

ValidRecord(name, level, location_type, geometry) ==
    [name |-> name, level |-> level, geometry |-> geometry, package |-> "pub",
     titles |-> Dict([en |-> Str("Room One")]), can_search |-> Bool(TRUE),
     routing_inclusion |-> Str("default"), location_type |-> Str(location_type),
     can_describe |-> Bool(TRUE)]

RecordFiles ==
    {ValidRecord("r1", "l-1", "room", {"c1", "c9900"}),
     ValidRecord("l0", "0", "level", {"c1", "c9900"}),
     [name |-> "r1", level |-> "0", geometry |-> Cells, package |-> "pub",
      titles |-> Dict([en |-> Str("")]), can_search |-> Bool(TRUE),
      routing_inclusion |-> Str("default"), location_type |-> Str("room"),
      can_describe |-> Bool(TRUE)]}

PackageFiles == UNION {[1..n -> RecordFiles] : n \in 1..MaxRecords}

\* The store after an exception left the atomic block, were there no transaction.
AfterRollbackAutocommit(committed, written) == written

\* The store after an exception left `with transaction.atomic()`.
AfterRollback(committed, written) == committed

\* reader = MapdataReader(); reader.read_packages()
ReadPackages(records) ==
    /\ pc = "idle"
    /\ (IF last_update = None THEN 0 ELSE last_update.second) < MaxStamp
    /\ reader' = [records |-> records, next |-> 1]
    /\ pc' = "read"
    /\ UNCHANGED <<store, last_update, cache, txn, point, call, ret>>

\* with set_last_mapdata_update(): with transaction.atomic():
BeginAtomic ==
    /\ pc = "read"
    /\ txn' = areas
    /\ pc' = "atomic"
    /\ UNCHANGED <<store, last_update, cache, reader, point, call, ret>>

\* apply_to_db writes the next record inside the transaction.
ApplyRecord ==
    /\ pc = "atomic"
    /\ reader.next <= Len(reader.records)
    /\ AreaFromfileError(reader.records[reader.next]) = ""
    /\ txn' = Upsert(txn, RowOf(reader.records[reader.next]))
    /\ reader' = [reader EXCEPT !.next = @ + 1]
    /\ UNCHANGED <<store, last_update, cache, pc, point, call, ret>>

\* The next record fails fromfile: the exception leaves both with blocks.
RejectRecord ==
    /\ pc = "atomic"
    /\ reader.next <= Len(reader.records)
    /\ AreaFromfileError(reader.records[reader.next]) # ""
    /\ areas' = AfterRollback(areas, txn)
    /\ txn' = <<>>
    /\ pc' = "failed"
    /\ UNCHANGED <<levels, groups, last_update, cache, reader, point, call, ret>>

\* if not options['yes'] and input('Confirm (y/N): ') != 'y': raise CommandError('Aborted.')
\* Otherwise the atomic block is left and the transaction commits.
Confirm(yes, answer) ==
    /\ pc = "atomic"
    /\ reader.next > Len(reader.records)
    /\ IF ~yes /\ answer # "y"
       THEN /\ areas' = AfterRollback(areas, txn)
            /\ pc' = "failed"
       ELSE /\ areas' = txn
            /\ pc' = "committed"
    /\ txn' = <<>>
    /\ UNCHANGED <<levels, groups, last_update, cache, reader, point, call, ret>>

\* set_last_mapdata_update() is left after the commit: the stamp moves on.
LeaveStampUpdate ==
    /\ pc = "committed"
    /\ last_update' = Stamp((IF last_update = None THEN 0 ELSE last_update.second) + 1)
    /\ pc' = "idle"
    /\ reader' = <<>>
    /\ UNCHANGED <<store, cache, txn, point, call, ret>>

\* The command ends with its error.
ExitWithError ==
    /\ pc = "failed"
    /\ pc' = "idle"
    /\ reader' = <<>>
    /\ UNCHANGED <<store, last_update, cache, txn, point, call, ret>>

InitialAreas ==
    <<AreaLocation("l0", "0", "level", Cells, [en |-> "Level 0"], "pub"),
      AreaLocation("r1", "0", "room", {"c1", "c9900"}, [en |-> "Room One"], "pub")>>

Init ==
    /\ levels = LevelNames
    /\ areas = InitialAreas
    /\ groups = <<>>
    /\ last_update = None
    /\ cache = EmptyCache
    /\ pc = "idle" /\ reader = <<>> /\ txn = <<>>
    /\ point = None /\ call = Idle /\ ret = None

Next ==
    \/ \E records \in PackageFiles : ReadPackages(records)
    \/ BeginAtomic
    \/ ApplyRecord
    \/ RejectRecord
    \/ \E yes \in BOOLEAN, answer \in {"y", "N"} : Confirm(yes, answer)
    \/ LeaveStampUpdate
    \/ ExitWithError
    \/ \E i \in 1..Len(areas) : RequestInAreas(i)
    \/ \E key \in DOMAIN cache : CacheExpire(key)

Spec == Init /\ [][Next]_vars

RECURSIVE ApplyAll(_, _)
\* The table with every record of a package written to it.
ApplyAll(rows, records) ==
    IF records = <<>> THEN rows
    ELSE ApplyAll(Upsert(rows, RowOf(Head(records))), Tail(records))

AllValid(records) == \A i \in 1..Len(records) : AreaFromfileError(records[i]) = ""

\* C8: a step of the import either leaves the AreaLocation table as it is or
\* puts in its place the table with every record of the package applied, all
\* of them valid and the operator having confirmed; a run that ends with an
\* error has left the table as it was.
C8_AllOrNothing ==
    [][/\ areas' # areas =>
            /\ pc = "atomic" /\ pc' = "committed"
            /\ AllValid(reader.records)
            /\ areas' = ApplyAll(areas, reader.records)
       /\ pc' = "failed" => areas' = areas]_vars

\* A run that failed after it had written a record inside the transaction.
C8_Witness ==
    /\ pc = "failed"
    /\ reader.next > 1
    /\ ApplyAll(areas, SubSeq(reader.records, 1, reader.next - 1)) # areas

\* A step in which a request calls get_in_areas.
InAreasStep ==
    call'.op = "get_in_areas" /\ <<call', ret'>> # <<call, ret>>

\* C10: a value get_in_areas takes from the cache was stored under the stamp
\* in force at the call; with no stamp set the call leaves the cache as it is
\* and returns what _get_in_areas computes.
C10_NoStaleStamp ==
    /\ [](call.op = "get_in_areas" /\ call.hit => call.under = call.last_update)
    /\ [][InAreasStep /\ last_update = None =>
              /\ cache' = cache
              /\ ~call'.hit
              /\ ret' = uncached_get_in_areas(call'.self)]_vars

\* A value taken from the cache under the second stamp while an entry stored
\* under the first stamp is still in the cache.
C10_Witness ==
    /\ call.op = "get_in_areas" /\ call.hit
    /\ call.last_update = Stamp(2)
    /\ \E key \in DOMAIN cache : cache[key].under = Stamp(1) /\ cache[key].value # <<>>

====
